---- MODULE Spec2Model ----
(***************************************************************************)
(* feature-view.py: read a BED file named on the command line into three   *)
(* parallel lists (features, lengths, fstarts) and draw them as a          *)
(* horizontal bar chart.  The program is one straight-line script; each    *)
(* statement (or group of adjacent statements) is one action, and pc is    *)
(* the position of the interpreter in the script.                          *)
(*                                                                         *)
(* Text is modelled as sequences of one-character strings so that          *)
(* readlines(), split() and int() are computed, not assumed.               *)
(***************************************************************************)
EXTENDS Integers, Sequences, FiniteSets, TLC

VARIABLES argv, disk, pc, bed_file, f, lines, idx,
          features, lengths, fstarts, y_pos, ax, shown,
          stderr, exc, exitcode

vars == <<argv, disk, pc, bed_file, f, lines, idx,
          features, lengths, fstarts, y_pos, ax, shown,
          stderr, exc, exitcode>>

(***************************************************************************)
(* Bounds of the model.                                                    *)
(***************************************************************************)
MaxLines == 2
MaxArgs == 2

(***************************************************************************)
(* Generic sequence helpers.                                               *)
(***************************************************************************)
SeqsUpTo(S, n) == UNION { [1..k -> S] : k \in 0..n }

RECURSIVE Concat(_)
Concat(ss) == IF ss = <<>> THEN <<>> ELSE Head(ss) \o Concat(Tail(ss))

(***************************************************************************)
(* Characters.  The input alphabet is the characters of the sample lines;  *)
(* of the whitespace split() recognises it holds space, tab and newline,   *)
(* and newline is the only line terminator.                                *)
(***************************************************************************)
Whitespace == {" ", "\t", "\n"}
Digits == {"0", "1", "2", "3", "4", "5", "6", "7", "8", "9"}

DigitVal(c) ==
    CASE c = "0" -> 0 [] c = "1" -> 1 [] c = "2" -> 2 [] c = "3" -> 3
      [] c = "4" -> 4 [] c = "5" -> 5 [] c = "6" -> 6 [] c = "7" -> 7
      [] c = "8" -> 8 [] c = "9" -> 9

(***************************************************************************)
(* f.readlines(): the text cut after every newline; each line keeps its    *)
(* newline, and a last line without one is still a line.                   *)
(***************************************************************************)
RECURSIVE ReadLinesFrom(_, _)
ReadLinesFrom(text, cur) ==
    IF text = <<>>
    THEN IF cur = <<>> THEN <<>> ELSE <<cur>>
    ELSE IF Head(text) = "\n"
         THEN <<Append(cur, "\n")>> \o ReadLinesFrom(Tail(text), <<>>)
         ELSE ReadLinesFrom(Tail(text), Append(cur, Head(text)))

ReadLinesSplitOnNewline(text) ==
    IF text = <<>> THEN << <<>> >> ELSE ReadLinesFrom(text, <<>>)

ReadLines(text) == ReadLinesFrom(text, <<>>)

(***************************************************************************)
(* line.split(): the maximal runs of non-whitespace characters, in order.  *)
(***************************************************************************)
RECURSIVE SplitFrom(_, _)
SplitFrom(s, cur) ==
    IF s = <<>>
    THEN IF cur = <<>> THEN <<>> ELSE <<cur>>
    ELSE IF Head(s) \in Whitespace
         THEN (IF cur = <<>> THEN <<>> ELSE <<cur>>) \o SplitFrom(Tail(s), <<>>)
         ELSE SplitFrom(Tail(s), Append(cur, Head(s)))

Split(s) == SplitFrom(s, <<>>)

(***************************************************************************)
(* int(text): an optional sign, then decimal digits in which single        *)
(* underscores may separate digits.  Anything else raises ValueError.      *)
(***************************************************************************)
Unsigned(t) == IF t # <<>> /\ Head(t) \in {"+", "-"} THEN Tail(t) ELSE t

PyIntOK(t) ==
    LET b == Unsigned(t) IN
    /\ b # <<>>
    /\ \A i \in 1..Len(b) : b[i] \in Digits \cup {"_"}
    /\ b[1] \in Digits
    /\ b[Len(b)] \in Digits
    /\ \A i \in 1..(Len(b) - 1) : ~(b[i] = "_" /\ b[i + 1] = "_")

RECURSIVE DigitsValue(_, _)
DigitsValue(b, acc) ==
    IF b = <<>> THEN acc
    ELSE IF Head(b) = "_" THEN DigitsValue(Tail(b), acc)
         ELSE DigitsValue(Tail(b), 10 * acc + DigitVal(Head(b)))

PyInt(t) ==
    IF t # <<>> /\ Head(t) = "-"
    THEN 0 - DigitsValue(Unsigned(t), 0)
    ELSE DigitsValue(Unsigned(t), 0)

(***************************************************************************)
(* Input texts.  Fields and separators the sample lines are made of.       *)
(***************************************************************************)
SP == <<" ">>
TB == <<"\t">>
NL == <<"\n">>
tChr == <<"c", "h", "r">>
t10 == <<"1", "0">>
t25 == <<"2", "5">>
t30 == <<"3", "0">>
t1_0 == <<"1", "_", "0">>
tPlus7 == <<"+", "7">>
tMinus3 == <<"-", "3">>
t1x == <<"1", "x">>
tDot == <<"2", ".", "5">>
tA == <<"a">>
tB == <<"e", "x", "2">>

LineSimple == Concat(<<tChr, SP, t10, SP, t25, SP, tA>>)
LineTabsExtra == Concat(<<tChr, TB, t30, TB, t25, TB, tB, TB, t10, TB, tPlus7>>)
LineSigns == Concat(<<SP, tChr, SP, SP, tMinus3, SP, tPlus7, SP, t1_0, SP>>)
LineUnderscore == Concat(<<tChr, SP, t1_0, SP, t30, SP, tB>>)
LineBlank == <<>>
LineSpaces == Concat(<<SP, TB>>)
LineThreeFields == Concat(<<tChr, SP, t10, SP, t25>>)
LineBadStart == Concat(<<tChr, SP, t1x, SP, t25, SP, tA>>)
LineBadEnd == Concat(<<tChr, SP, t10, SP, tDot, SP, tB>>)

SampleLines == {LineSimple, LineTabsExtra, LineSigns, LineUnderscore,
                LineBlank, LineSpaces, LineThreeFields, LineBadStart, LineBadEnd}

\* The text of a file holding the given lines; the last line may lack its
\* newline.
RECURSIVE Joined(_)
Joined(ls) ==
    IF ls = <<>> THEN <<>>
    ELSE IF Len(ls) = 1 THEN Head(ls)
         ELSE Head(ls) \o NL \o Joined(Tail(ls))

FileTexts ==
    { Joined(ls) : ls \in SeqsUpTo(SampleLines, MaxLines) }
      \cup { Joined(ls) \o NL : ls \in SeqsUpTo(SampleLines, MaxLines) \ {<<>>} }

ProgNames == {"feature-view.py", "./fv"}
Paths == {"genes.bed", "missing.bed"}

(***************************************************************************)
(* The chart before anything is drawn.                                     *)
(***************************************************************************)
EmptyAx == [figure |-> FALSE, bars |-> <<>>, yticks |-> <<>>,
            yticklabels |-> <<>>, yinverted |-> FALSE,
            xlabel |-> "", title |-> ""]

BarHeight == <<3, 10>>   \* 0.3 as numerator and denominator

(***************************************************************************)
(* Initial state: the interpreter is about to run the first statement.     *)
(***************************************************************************)
Init ==
    /\ \E p \in ProgNames : \E args \in SeqsUpTo(Paths, MaxArgs) :
          argv = <<p>> \o args
    /\ \E t \in FileTexts :
          disk = [q \in Paths |->
                    IF q = "genes.bed" THEN [exists |-> TRUE, text |-> t]
                    ELSE [exists |-> FALSE, text |-> <<>>]]
    /\ pc = "gate"
    /\ bed_file = ""
    /\ f = "unopened"
    /\ lines = <<>>
    /\ idx = 0
    /\ features = <<>>
    /\ lengths = <<>>
    /\ fstarts = <<>>
    /\ y_pos = <<>>
    /\ ax = EmptyAx
    /\ shown = FALSE
    /\ stderr = <<>>
    /\ exc = ""
    /\ exitcode = <<>>

(***************************************************************************)
(* An exception nobody catches: the interpreter prints a traceback and     *)
(* the process ends with status 1.  Nothing else changes.                  *)
(***************************************************************************)
Uncaught(e) ==
    /\ exc' = e
    /\ stderr' = Append(stderr, "Traceback (most recent call last): " \o e)
    /\ exitcode' = <<1>>
    /\ pc' = "exited"

(***************************************************************************)
(* Lines 26-28: the argument gate.                                         *)
(***************************************************************************)
ArgCountWrongAtLeast(av) == Len(av) < 2

ArgCountWrong(av) == Len(av) # 2

UsageText == "Usage: sys.argv[0] bed-file\n"

GateReject ==
    /\ pc = "gate"
    /\ ArgCountWrong(argv)
    /\ exc' = "SystemExit"
    /\ stderr' = stderr \o <<UsageText, "\n">>
    /\ exitcode' = <<1>>
    /\ pc' = "exited"
    /\ UNCHANGED <<argv, disk, bed_file, f, lines, idx, features, lengths,
                   fstarts, y_pos, ax, shown>>

GateAccept ==
    /\ pc = "gate"
    /\ ~ArgCountWrong(argv)
    /\ bed_file' = argv[2]
    /\ pc' = "open"
    /\ UNCHANGED <<argv, disk, f, lines, idx, features, lengths, fstarts,
                   y_pos, ax, shown, stderr, exc, exitcode>>

(***************************************************************************)
(* Line 33: f=open(bed_file,"r").                                          *)
(***************************************************************************)
OpenCreatesMissing ==
    /\ pc = "open"
    /\ ~disk[bed_file].exists
    /\ f' = "open"
    /\ pc' = "lists"
    /\ UNCHANGED <<argv, disk, bed_file, lines, idx, features, lengths,
                   fstarts, y_pos, ax, shown, stderr, exc, exitcode>>

OpenFail ==
    /\ pc = "open"
    /\ ~disk[bed_file].exists
    /\ Uncaught("FileNotFoundError")
    /\ UNCHANGED <<argv, disk, bed_file, f, lines, idx, features, lengths,
                   fstarts, y_pos, ax, shown>>

OpenOK ==
    /\ pc = "open"
    /\ disk[bed_file].exists
    /\ f' = "open"
    /\ pc' = "lists"
    /\ UNCHANGED <<argv, disk, bed_file, lines, idx, features, lengths,
                   fstarts, y_pos, ax, shown, stderr, exc, exitcode>>

(***************************************************************************)
(* Lines 34-36: the three lists start empty.                               *)
(***************************************************************************)
InitLists ==
    /\ pc = "lists"
    /\ features' = <<>>
    /\ lengths' = <<>>
    /\ fstarts' = <<>>
    /\ pc' = "readlines"
    /\ UNCHANGED <<argv, disk, bed_file, f, lines, idx, y_pos, ax, shown,
                   stderr, exc, exitcode>>

(***************************************************************************)
(* Line 37: f.readlines() reads the whole file before the first line is    *)
(* parsed.  idx counts the lines the loop has completed.                   *)
(***************************************************************************)
ReadAll ==
    /\ pc = "readlines"
    /\ lines' = ReadLines(disk[bed_file].text)
    /\ idx' = 0
    /\ pc' = "loop"
    /\ UNCHANGED <<argv, disk, bed_file, f, features, lengths, fstarts,
                   y_pos, ax, shown, stderr, exc, exitcode>>

(***************************************************************************)
(* Lines 38-41: one iteration of the loop on line number idx (0-based).    *)
(* a[3] is evaluated first (IndexError), then int(a[2]) and int(a[1]) on   *)
(* line 40 (ValueError) after the name has already been appended.          *)
(***************************************************************************)
a == Split(lines[idx + 1])

FeatureLengthSwapped(fs) == PyInt(fs[2]) - PyInt(fs[3])

FeatureLength(fs) == PyInt(fs[3]) - PyInt(fs[2])

LoopSkipShortLine ==
    /\ pc = "loop"
    /\ idx < Len(lines)
    /\ Len(a) < 4
    /\ idx' = idx + 1
    /\ UNCHANGED <<argv, disk, pc, bed_file, f, lines, features, lengths,
                   fstarts, y_pos, ax, shown, stderr, exc, exitcode>>

LoopIndexError ==
    /\ pc = "loop"
    /\ idx < Len(lines)
    /\ Len(a) < 4
    /\ Uncaught("IndexError")
    /\ UNCHANGED <<argv, disk, bed_file, f, lines, idx, features, lengths,
                   fstarts, y_pos, ax, shown>>

LoopValueError ==
    /\ pc = "loop"
    /\ idx < Len(lines)
    /\ Len(a) >= 4
    /\ ~(PyIntOK(a[3]) /\ PyIntOK(a[2]))
    /\ features' = Append(features, a[4])
    /\ Uncaught("ValueError")
    /\ UNCHANGED <<argv, disk, bed_file, f, lines, idx, lengths, fstarts,
                   y_pos, ax, shown>>

LoopAppendDropsStart ==
    /\ pc = "loop"
    /\ idx < Len(lines)
    /\ Len(a) >= 4
    /\ PyIntOK(a[3]) /\ PyIntOK(a[2])
    /\ features' = Append(features, a[4])
    /\ lengths' = Append(lengths, FeatureLength(a))
    /\ fstarts' = IF PyInt(a[2]) < 0 THEN fstarts ELSE Append(fstarts, PyInt(a[2]))
    /\ idx' = idx + 1
    /\ UNCHANGED <<argv, disk, pc, bed_file, f, lines, y_pos, ax, shown,
                   stderr, exc, exitcode>>

LoopAppend ==
    /\ pc = "loop"
    /\ idx < Len(lines)
    /\ Len(a) >= 4
    /\ PyIntOK(a[3]) /\ PyIntOK(a[2])
    /\ features' = Append(features, a[4])
    /\ lengths' = Append(lengths, FeatureLength(a))
    /\ fstarts' = Append(fstarts, PyInt(a[2]))
    /\ idx' = idx + 1
    /\ UNCHANGED <<argv, disk, pc, bed_file, f, lines, y_pos, ax, shown,
                   stderr, exc, exitcode>>

(***************************************************************************)
(* Line 42: f.close(), reached only when the loop has run out of lines.    *)
(***************************************************************************)
CloseForgotten ==
    /\ pc = "loop"
    /\ idx = Len(lines)
    /\ pc' = "setup"
    /\ UNCHANGED <<argv, disk, bed_file, f, lines, idx, features, lengths,
                   fstarts, y_pos, ax, shown, stderr, exc, exitcode>>

Close ==
    /\ pc = "loop"
    /\ idx = Len(lines)
    /\ f' = "closed"
    /\ pc' = "setup"
    /\ UNCHANGED <<argv, disk, bed_file, lines, idx, features, lengths,
                   fstarts, y_pos, ax, shown, stderr, exc, exitcode>>

(***************************************************************************)
(* Lines 47-49: a fresh figure, and y_pos = arange(len(features)).         *)
(***************************************************************************)
Arange(n) == [i \in 1..n |-> i - 1]

Subplots ==
    /\ pc = "setup"
    /\ ax' = [EmptyAx EXCEPT !.figure = TRUE]
    /\ y_pos' = Arange(Len(features))
    /\ pc' = "barh"
    /\ UNCHANGED <<argv, disk, bed_file, f, lines, idx, features, lengths,
                   fstarts, shown, stderr, exc, exitcode>>

(***************************************************************************)
(* Line 50: ax.barh(y_pos, lengths, 0.3, left=fstarts, align='center').    *)
(***************************************************************************)
BarsSwapped(ys, widths, height, lefts) ==
    [i \in 1..Len(ys) |-> [y |-> ys[i], width |-> lefts[i], height |-> height,
                           left |-> widths[i], align |-> "center"]]

Bars(ys, widths, height, lefts) ==
    [i \in 1..Len(ys) |-> [y |-> ys[i], width |-> widths[i], height |-> height,
                           left |-> lefts[i], align |-> "center"]]

Barh ==
    /\ pc = "barh"
    /\ ax' = [ax EXCEPT !.bars = Bars(y_pos, lengths, BarHeight, fstarts)]
    /\ pc' = "yticks"
    /\ UNCHANGED <<argv, disk, bed_file, f, lines, idx, features, lengths,
                   fstarts, y_pos, shown, stderr, exc, exitcode>>

(***************************************************************************)
(* Lines 51-52: tick positions and tick labels.                            *)
(***************************************************************************)
SetTicks ==
    /\ pc = "yticks"
    /\ ax' = [ax EXCEPT !.yticks = y_pos, !.yticklabels = features]
    /\ pc' = "decor"
    /\ UNCHANGED <<argv, disk, bed_file, f, lines, idx, features, lengths,
                   fstarts, y_pos, shown, stderr, exc, exitcode>>

(***************************************************************************)
(* Lines 53-55: axis inversion, x label and title.                         *)
(***************************************************************************)
Decorate ==
    /\ pc = "decor"
    /\ ax' = [ax EXCEPT !.yinverted = ~ax.yinverted,
                        !.xlabel = "Position",
                        !.title = "Gene subfeatures"]
    /\ pc' = "show"
    /\ UNCHANGED <<argv, disk, bed_file, f, lines, idx, features, lengths,
                   fstarts, y_pos, shown, stderr, exc, exitcode>>

(***************************************************************************)
(* Line 57: pyplot.show(); when it returns the script ends, status 0.      *)
(***************************************************************************)
Show ==
    /\ pc = "show"
    /\ shown' = TRUE
    /\ pc' = "displayed"
    /\ UNCHANGED <<argv, disk, bed_file, f, lines, idx, features, lengths,
                   fstarts, y_pos, ax, stderr, exc, exitcode>>

ExitNormal ==
    /\ pc = "displayed"
    /\ exitcode' = <<0>>
    /\ pc' = "exited"
    /\ UNCHANGED <<argv, disk, bed_file, f, lines, idx, features, lengths,
                   fstarts, y_pos, ax, shown, stderr, exc>>

Next ==
    \/ GateReject
    \/ GateAccept
    \/ OpenFail
    \/ OpenOK
    \/ InitLists
    \/ ReadAll
    \/ LoopIndexError
    \/ LoopValueError
    \/ LoopAppend
    \/ Close
    \/ Subplots
    \/ Barh
    \/ SetTicks
    \/ Decorate
    \/ Show
    \/ ExitNormal

Spec == Init /\ [][Next]_vars

(***************************************************************************)
(* Vocabulary of the properties.                                           *)
(***************************************************************************)
RenderPcs == {"setup", "barh", "yticks", "decor", "show", "displayed"}

\* The loader has run to its end and control is in, or past, the renderer.
Loaded == pc \in RenderPcs \/ (pc = "exited" /\ exc = "")

\* The process has ended with a non-zero status.
ExitedNonZero == pc = "exited" /\ exitcode # <<>> /\ exitcode[1] # 0

\* At least 4 whitespace-separated fields, fields 1 and 2 integers.
WellFormedLine(l) ==
    /\ Len(Split(l)) >= 4
    /\ PyIntOK(Split(l)[2])
    /\ PyIntOK(Split(l)[3])

\* The lines of the file the single argument names.
InputLines == ReadLines(disk[argv[2]].text)

OneGoodArg == Len(argv) = 2 /\ disk[argv[2]].exists

BadLineNumbers == { i \in 1..Len(InputLines) : ~WellFormedLine(InputLines[i]) }

FirstBad == CHOOSE i \in BadLineNumbers : \A j \in BadLineNumbers : i <= j

\* Elements 1..n of the three lists come from lines 1..n, line by line.
NamesFromLines(n) == \A i \in 1..n : features[i] = Split(InputLines[i])[4]

NumbersFromLines(n) ==
    \A i \in 1..n :
        /\ fstarts[i] = PyInt(Split(InputLines[i])[2])
        /\ lengths[i] = PyInt(Split(InputLines[i])[3]) - PyInt(Split(InputLines[i])[2])

(***************************************************************************)
(* C1: whenever the number of arguments after the program name is not one, *)
(* the run stays on the usage-error path: the file is never opened, no     *)
(* line is read, nothing is rendered, and the process ends with a non-zero *)
(* status after writing to standard error.                                 *)
(***************************************************************************)
C1_UsageErrorPath ==
    Len(argv) # 2 =>
        /\ pc \in {"gate", "exited"}
        /\ f = "unopened"
        /\ bed_file = ""
        /\ lines = <<>> /\ idx = 0
        /\ features = <<>> /\ lengths = <<>> /\ fstarts = <<>>
        /\ ax = EmptyAx /\ ~shown
        /\ pc = "exited" => /\ ExitedNonZero
                            /\ exc = "SystemExit"
                            /\ stderr # <<>>

C1_Witness ==
    /\ Len(argv) = 3
    /\ argv[2] = "genes.bed"
    /\ pc = "exited"
    /\ exitcode = <<1>>

(***************************************************************************)
(* C2: for a file of N well-formed lines the loader finishes without       *)
(* failure, and when it has finished the three lists have N elements each, *)
(* with names[i] = field 3, starts[i] = int(field 1) and                   *)
(* lengths[i] = int(field 2) - int(field 1) of line i, in line order.      *)
(***************************************************************************)
C2_LoadInLineOrder ==
    (OneGoodArg /\ BadLineNumbers = {}) =>
        /\ exc = ""
        /\ Loaded =>
            /\ Len(features) = Len(InputLines)
            /\ Len(lengths) = Len(InputLines)
            /\ Len(fstarts) = Len(InputLines)
            /\ NamesFromLines(Len(InputLines))
            /\ NumbersFromLines(Len(InputLines))

C2_Witness ==
    /\ OneGoodArg
    /\ pc = "setup"
    /\ Len(features) >= 2
    /\ features[1] # features[2]
    /\ lengths[1] # lengths[2]
    /\ \E i \in 1..Len(lengths) : lengths[i] < 0
    /\ \E i \in 1..Len(lengths) : lengths[i] > 0

(***************************************************************************)
(* C3: when some line has fewer than 4 fields or a non-integer field 1 or  *)
(* 2, the run fails at the first such line: no later line is parsed, the   *)
(* renderer is never reached, and the process ends with a non-zero status. *)
(***************************************************************************)
C3_MalformedLineAborts ==
    (OneGoodArg /\ BadLineNumbers # {}) =>
        /\ pc \notin RenderPcs
        /\ ax = EmptyAx /\ ~shown
        /\ idx < FirstBad
        /\ Len(features) <= FirstBad
        /\ Len(lengths) < FirstBad
        /\ Len(fstarts) < FirstBad
        /\ pc = "exited" => /\ ExitedNonZero
                            /\ exc \in {"IndexError", "ValueError"}
                            /\ idx = FirstBad - 1

C3_Witness ==
    /\ OneGoodArg
    /\ pc = "exited"
    /\ exc = "IndexError"
    /\ idx = 0
    /\ Len(lines) = 2
    /\ WellFormedLine(lines[2])

(***************************************************************************)
(* C4: with exactly one argument that names a file that cannot be opened,  *)
(* the run fails at the open: no line is parsed, no list receives an       *)
(* element, the renderer is never reached, and the status is non-zero.     *)
(***************************************************************************)
C4_MissingFileFailsAtOpen ==
    (Len(argv) = 2 /\ ~disk[argv[2]].exists) =>
        /\ pc \in {"gate", "open", "exited"}
        /\ f = "unopened"
        /\ lines = <<>> /\ idx = 0
        /\ features = <<>> /\ lengths = <<>> /\ fstarts = <<>>
        /\ ax = EmptyAx /\ ~shown
        /\ pc = "exited" => /\ ExitedNonZero
                            /\ exc = "FileNotFoundError"

C4_Witness ==
    /\ Len(argv) = 2
    /\ argv[2] = "missing.bed"
    /\ pc = "exited"
    /\ exc = "FileNotFoundError"

(***************************************************************************)
(* C5 as stated: on every path that leaves the loader after a successful   *)
(* open, normal or aborted by a malformed line, the handle has been        *)
(* closed, and it is never open while the renderer runs.                   *)
(***************************************************************************)
C5_ClosedOnEveryExit ==
    (f # "unopened" /\ (pc \in RenderPcs \/ pc = "exited")) => f = "closed"

(***************************************************************************)
(* C5 amended: the handle is closed when the read completes normally and   *)
(* is never open while the renderer runs or after it; when a malformed     *)
(* line aborts the loader the handle has not been closed by the loader.    *)
(***************************************************************************)
C5_ClosedOnNormalCompletion ==
    /\ Loaded => f = "closed"
    /\ (pc = "exited" /\ exc \in {"IndexError", "ValueError"}) => f = "open"

C5_Witness ==
    /\ pc = "setup"
    /\ f = "closed"
    /\ Len(lines) >= 2

(***************************************************************************)
(* C6 as stated: between any two lines and in every terminal state of the  *)
(* loader, an abort on a malformed line included, the three lists have the *)
(* same number of elements and their i-th elements come from line i.       *)
(***************************************************************************)
C6_LockStepAlways ==
    (OneGoodArg /\ (pc = "loop" \/ Loaded \/ pc = "exited")) =>
        /\ Len(features) = Len(lengths)
        /\ Len(lengths) = Len(fstarts)
        /\ NamesFromLines(Len(features))
        /\ NumbersFromLines(Len(lengths))

(***************************************************************************)
(* C6 amended: between any two lines, on normal completion and on an abort *)
(* for too few fields the three lists have equally many elements, one per  *)
(* line processed, the i-th of each from line i; on an abort for a         *)
(* non-integer field 1 or 2 the name list alone already holds the name of  *)
(* the failing line, so it is one element longer than the other two.       *)
(***************************************************************************)
C6_LockStepExceptValueError ==
    (OneGoodArg /\ (pc = "loop" \/ Loaded \/ pc = "exited")) =>
        /\ Len(lengths) = idx
        /\ Len(fstarts) = idx
        /\ Len(features) = (IF exc = "ValueError" THEN idx + 1 ELSE idx)
        /\ NamesFromLines(Len(features))
        /\ NumbersFromLines(Len(lengths))

C6_Witness ==
    /\ OneGoodArg
    /\ pc = "exited"
    /\ exc = "ValueError"
    /\ Len(features) = 2
    /\ Len(lengths) = 1
    /\ Len(fstarts) = 1

(***************************************************************************)
(* C7: on an argument-count mismatch the text written to standard error is *)
(* "Usage: <program-name> bed-file" and a newline, <program-name> being    *)
(* argument 0.                                                             *)
(***************************************************************************)
C7_UsageNamesProgram ==
    (Len(argv) # 2 /\ pc = "exited") =>
        /\ stderr # <<>>
        /\ stderr[1] = "Usage: " \o argv[1] \o " bed-file\n"

(***************************************************************************)
(* C8: for an existing file with zero lines the loader never fails, the    *)
(* three lists stay empty, the chart gets zero bars and zero tick labels,  *)
(* and the run ends with status 0 after the chart has been shown.          *)
(***************************************************************************)
C8_EmptyFileRenders ==
    (OneGoodArg /\ disk[argv[2]].text = <<>>) =>
        /\ exc = ""
        /\ features = <<>> /\ lengths = <<>> /\ fstarts = <<>>
        /\ ax.bars = <<>> /\ ax.yticks = <<>> /\ ax.yticklabels = <<>>
        /\ pc = "exited" => /\ exitcode = <<0>>
                            /\ shown
                            /\ ax.figure
                            /\ f = "closed"

C8_Witness ==
    /\ OneGoodArg
    /\ disk[argv[2]].text = <<>>
    /\ pc = "exited"
    /\ exitcode = <<0>>
    /\ shown

(***************************************************************************)
(* C9: once the bars are drawn there are exactly N of them, bar i at       *)
(* y-position i with length lengths[i], left offset starts[i] and          *)
(* thickness 0.3; once the tick labels are set, label i is names[i]; and   *)
(* no step of the renderer changes the three lists.                        *)
(***************************************************************************)
C9_BarsDrawn ==
    (pc \in {"yticks", "decor", "show", "displayed"} \/ (pc = "exited" /\ shown)) =>
        /\ Len(lines) = Len(features)
        /\ Len(ax.bars) = Len(features)
        /\ \A i \in 1..Len(features) :
              /\ ax.bars[i].y = i - 1
              /\ ax.bars[i].width = lengths[i]
              /\ ax.bars[i].left = fstarts[i]
              /\ ax.bars[i].height = <<3, 10>>

C9_LabelsSet ==
    (pc \in {"decor", "show", "displayed"} \/ (pc = "exited" /\ shown)) =>
        /\ Len(ax.yticklabels) = Len(features)
        /\ Len(ax.yticks) = Len(features)
        /\ \A i \in 1..Len(features) :
              /\ ax.yticklabels[i] = features[i]
              /\ ax.yticks[i] = i - 1

C9_RendererKeepsLists ==
    pc \in RenderPcs => UNCHANGED <<features, lengths, fstarts>>

C9_RenderMatchesLists ==
    /\ [](C9_BarsDrawn /\ C9_LabelsSet)
    /\ [][C9_RendererKeepsLists]_vars

C9_Witness ==
    /\ pc = "show"
    /\ Len(ax.bars) >= 2
    /\ \E i \in 1..Len(ax.bars) : ax.bars[i].width # ax.bars[i].left
    /\ ax.yticklabels[1] # ax.yticklabels[2]

====
